---------------------------- MODULE Spec2Model ----------------------------
(***************************************************************************)
(* Model of the XML key extractor / file monitor of ConfigurationToClass.  *)
(*                                                                         *)
(* The state machine follows the Vue component src/unnamed/part_000: file  *)
(* selection, the watcher that runs processFile, writeOutputFile, and the  *)
(* polling loop of startPolling.  src/main.js is the earlier variant of    *)
(* the same component; it exposes processFile as a method the page calls   *)
(* directly, which is modelled by ProcessFileCall, and its extractKeys is  *)
(* modelled by extractKeysMain.                                            *)
(*                                                                         *)
(* Every `await` on file I/O is a point where other callbacks may run, so  *)
(* each asynchronous function is split into one action per await; the      *)
(* synchronous code between two awaits is one atomic step.  Every I/O      *)
(* promise may resolve or reject.                                          *)
(*                                                                         *)
(* Specifications:                                                         *)
(*   Spec          the monitor, every promise resolving or rejecting       *)
(*   ReliableSpec  the monitor with reads and writes that all succeed      *)
(*   SessionSpec   the monitor through several runs of processFile         *)
(*   PickerSpec    the monitor with pickers used while polling runs        *)
(*   ExtractSpec   extractKeys applied to a text                           *)
(*   DiffSpec      the two filters of the poll applied to two snapshots    *)
(*   IdentSpec     the identifier derivation applied to a key              *)
(*                                                                         *)
(* Not modelled: document.title, the "processing" event and its timeout    *)
(* (processingInterval), timestamps of log entries, console output.        *)
(***************************************************************************)
EXTENDS Naturals, Sequences, FiniteSets

(***************************************************************************)
(* Bounds of the model.                                                    *)
(***************************************************************************)
MaxLog == 2        \* the user acts only while the log holds fewer entries
MaxMTime == 2      \* the watched file is modified at most MaxMTime - 1 times
MaxTasks == 2      \* asynchronous runs (processFile, poll ticks) in flight
MaxRuns == 1       \* processFile runs, each ending in a startPolling call
MaxAdds == 2       \* <add> elements of an appSettings element given to extractKeys
MaxSnap == 2       \* entries of a snapshot given to the change detector
MaxKeyLen == 3     \* characters of a key given to the identifier derivation
MaxSessionLog == 4  \* the bound of the log in the session of several runs
MaxSessionRuns == 2 \* processFile runs in the session of several runs
MaxPickerLog == 5   \* the bound of the log in the session of many pickers

(***************************************************************************)
(* Strings are sequences of one-character strings.  An attribute value as  *)
(* returned by getAttribute is <<>> (null) or <<s>> (the string s).        *)
(***************************************************************************)
Null == <<>>
Str(s) == <<s>>
IsNull(a) == a = Null
\* JavaScript truthiness of a getAttribute result: neither null nor "".
Truthy(a) == a /= Null /\ a[1] /= <<>>

Digits == {"0", "1", "2", "3", "4", "5", "6", "7", "8", "9"}
Letters ==
  {"a", "b", "c", "d", "e", "f", "g", "h", "i", "j", "k", "l", "m",
   "n", "o", "p", "q", "r", "s", "t", "u", "v", "w", "x", "y", "z",
   "A", "B", "C", "D", "E", "F", "G", "H", "I", "J", "K", "L", "M",
   "N", "O", "P", "Q", "R", "S", "T", "U", "V", "W", "X", "Y", "Z"}
\* The class \w of the regular expressions /\W/g and /^\d/.
WordChars == Letters \cup Digits \cup {"_"}

(***************************************************************************)
(* Documents.  A text is either well-formed XML, given by its appSettings  *)
(* elements in document order, each the sequence of its <add> elements     *)
(* (their key and value attributes), or text that is not well-formed.      *)
(***************************************************************************)
Add(k, v) == [key |-> k, value |-> v]
Doc(containers) == [wellFormed |-> TRUE, appSettings |-> containers]
\* Text that is not well-formed: appSettings holds the appSettings elements,
\* with their <add> elements, that precede the first error.
Truncated(containers) == [wellFormed |-> FALSE, appSettings |-> containers]
\* Text whose first error precedes every appSettings element (an empty file).
Malformed == [wellFormed |-> FALSE, appSettings |-> <<>>]

KeyA == Str(<<"A">>)
KeyB == Str(<<"B">>)
Val1 == Str(<<"1">>)
Val2 == Str(<<"2">>)

DocA == Doc(<< <<Add(KeyA, Val1)>> >>)
DocAB == Doc(<< <<Add(KeyA, Val1), Add(KeyB, Val2)>> >>)
DocA2 == Doc(<< <<Add(KeyA, Val2)>> >>)
DocKeyless == Doc(<< <<Add(KeyA, Val1), Add(Null, Val2)>> >>)
DocNoContainer == Doc(<<>>)
\* DocAB cut off after its first <add>, as a reader sees it while another
\* program is writing it.
DocCut == Truncated(<< <<Add(KeyA, Val1)>> >>)

\* The text of the watched file when it is selected, and the texts another
\* program writes to it afterwards.
Docs == {DocA, DocAB, DocA2, DocKeyless, Malformed, DocCut}
InitialDocs == Docs

\* The texts given to the extractor on its own: not well-formed, without
\* appSettings, and with one or two appSettings elements, the first holding
\* up to MaxAdds <add> elements with a key that is absent, empty or a name.
AddElements == [key : {Null, Str(<<>>), KeyA, KeyB}, value : {Null, Val1}]
Containers == UNION {[1..n -> AddElements] : n \in 0..MaxAdds}
XmlTexts ==
  {Malformed, DocNoContainer}
    \cup {Doc(<<c>>) : c \in Containers}
    \cup {Doc(<<c, <<Add(KeyB, Val2)>> >>) : c \in Containers}
    \cup {Truncated(<<c>>) : c \in Containers}

(***************************************************************************)
(* DOMParser.parseFromString(text, "text/xml") never throws.  For text     *)
(* that is not well-formed the browser decides what the document holds:    *)
(*   "errorDocument": a <parsererror> element alone (the HTML standard),   *)
(*   "partialTree":   the tree built up to the error, with a <parsererror> *)
(*                    element put into it (Blink, the engine of every      *)
(*                    browser that has showOpenFilePicker).                *)
(* The code does not look for <parsererror>, so which of the two the       *)
(* browser does decides what extractKeys finds.                            *)
(***************************************************************************)
VARIABLE parser      \* what the browser's XML parser does on an error
Parsers == {"errorDocument", "partialTree"}

parseFromString(xmlText) ==
  IF xmlText.wellFormed \/ parser = "partialTree"
  THEN xmlText.appSettings
  ELSE <<>>

\* .filter(Boolean) on the mapped entries: every entry is an object, and an
\* object is truthy whatever its key.
FilterBoolean(entries) == SelectSeq(entries, LAMBDA e : TRUE)

\* The tail of extractKeys of part_000: map each <add> to {key, value} and
\* filter with Boolean.
EntriesOf(addElements) ==
  FilterBoolean([i \in 1..Len(addElements) |->
                   Add(addElements[i].key, addElements[i].value)])

\* extractKeys of part_000.
extractKeys(xmlText) ==
  LET containers == parseFromString(xmlText)
  IN  IF containers = <<>> THEN <<>>
      ELSE EntriesOf(containers[1])

\* extractKeys of main.js: pushes the key only `if (key)`.  Entries keep the
\* shape {key, value} here; main.js keeps the key string alone.
extractKeysMain(xmlText) ==
  LET containers == parseFromString(xmlText)
  IN  IF containers = <<>> THEN <<>>
      ELSE SelectSeq(containers[1], LAMBDA el : Truthy(el.key))

(***************************************************************************)
(* The change detector: the two filters of the poll callback.              *)
(***************************************************************************)
\* SomeKey with .every in place of .some.
SomeKeyEvery(s, k) == \A i \in 1..Len(s) : s[i].key = k

\* s.some((obj2) => key.key === obj2.key)
SomeKey(s, k) == \E i \in 1..Len(s) : s[i].key = k

\* newKeysOf comparing the entries (key and value) in place of the keys.
newKeysOfByEntry(known, currentKeys) ==
  SelectSeq(currentKeys, LAMBDA key : ~\E i \in 1..Len(known) : known[i] = key)

newKeysOf(known, currentKeys) ==
  SelectSeq(currentKeys, LAMBDA key : ~SomeKey(known, key.key))

\* deletedKeysOf comparing the values in place of the keys.
deletedKeysOfByValue(known, currentKeys) ==
  SelectSeq(known,
            LAMBDA key : ~\E i \in 1..Len(currentKeys) : currentKeys[i].value = key.value)

deletedKeysOf(known, currentKeys) ==
  SelectSeq(known, LAMBDA key : ~SomeKey(currentKeys, key.key))

\* The two filters of one poll: what was added to and removed from the
\* snapshot known to give currentKeys.
diffOf(known, currentKeys) ==
  [added |-> newKeysOf(known, currentKeys),
   removed |-> deletedKeysOf(known, currentKeys)]

(***************************************************************************)
(* The code generator: the loop of writeOutputFile.                        *)
(***************************************************************************)
\* ReplaceNonWord with the regular expression /\W/, without the flag g: the
\* first character outside \w alone is replaced.
ReplaceFirstNonWord(s) ==
  [i \in 1..Len(s) |->
     IF s[i] \notin WordChars /\ \A j \in 1..(i - 1) : s[j] \in WordChars
     THEN "_" ELSE s[i]]

\* key.replace(/\W/g, "_")
ReplaceNonWord(s) == [i \in 1..Len(s) |-> IF s[i] \in WordChars THEN s[i] ELSE "_"]

\* The identifier of one key string.
constNameOf(s) ==
  LET replaced == ReplaceNonWord(s)
  IN  IF replaced /= <<>> /\ replaced[1] \in Digits
      THEN <<"_">> \o replaced
      ELSE replaced

\* item.key.replace(...) throws a TypeError when item.key is null.
Throws(keys) == \E i \in 1..Len(keys) : IsNull(keys[i].key)

\* One field declaration: the doc comment with the raw value, the constant
\* name and the AppSettings key.
FieldOf(item) ==
  [summary |-> item.value, constName |-> constNameOf(item.key[1]), key |-> item.key[1]]

\* The class content written for keys that do not make the loop throw.
classContentOf(keys) == [i \in 1..Len(keys) |-> FieldOf(keys[i])]


(***************************************************************************)
(* State.                                                                  *)
(***************************************************************************)
VARIABLES
  mounted,           \* the component is mounted
  xmlFileHandle,     \* "null" or "handle"
  outputFileHandle,  \* "null" or "handle"
  xmlFileName,
  outputFileName,
  messages,          \* the log, oldest entry first (messages.value.push)
  knownKeys,         \* the accepted snapshot
  pollingInterval,   \* 0 (null) or the id of the timer of the last startPolling
  timers,            \* timers[id]: one per startPolling call, with its closure
  tasks,             \* the asynchronous runs in flight
  watched,           \* the watched file on disk: modification time and text
  output,            \* the output file on disk
  last,              \* the step taken last: what ran, for which run, how it ended
  arg,               \* the argument of a function applied on its own
  result             \* and what the function returned

monitorVars ==
  <<mounted, xmlFileHandle, outputFileHandle, xmlFileName, outputFileName,
    messages, knownKeys, pollingInterval, timers, tasks, watched, output, last>>
vars == <<monitorVars, arg, result, parser>>

\* A log entry.  The status entry of a poll carries the added and removed keys.
Msg(text) == [text |-> text, added |-> <<>>, removed |-> <<>>]
StatusMsg(newKeys, deletedKeys) ==
  [text |-> "Output file updated.",
   added |-> [i \in 1..Len(newKeys) |-> newKeys[i].key],
   removed |-> [i \in 1..Len(deletedKeys) |-> deletedKeys[i].key]]

\* The File object of a task that holds none.
NoFile == [lastModified |-> 0, content |-> Malformed]
\* A free slot of tasks.
IdleTask ==
  [kind |-> "none", pc |-> "idle", timer |-> 0, file |-> NoFile,
   keys |-> <<>>, newKeys |-> <<>>, deletedKeys |-> <<>>]
\* The output file before anything was written to it.
Unwritten == [written |-> FALSE, classContent |-> <<>>]

TaskIds == 1..MaxTasks
Free(i) == tasks[i].kind = "none"
\* New runs take the lowest free slot.
FirstFree(i) == Free(i) /\ \A j \in 1..(i - 1) : ~Free(j)
Running(kind) == {i \in TaskIds : tasks[i].kind = kind}
Step(op, kind, i, ok) == [op |-> op, kind |-> kind, task |-> i, ok |-> ok]

\* No function has been applied on its own.
NoResult == [fn |-> "none", done |-> FALSE, keys |-> <<>>]

MonitorInit ==
  /\ mounted = TRUE
  /\ xmlFileHandle = "null"
  /\ outputFileHandle = "null"
  /\ xmlFileName = ""
  /\ outputFileName = ""
  /\ messages = <<>>
  /\ knownKeys = <<>>
  /\ pollingInterval = 0
  /\ timers = <<>>
  /\ tasks = [i \in TaskIds |-> IdleTask]
  /\ watched \in [lastModified : {1}, content : InitialDocs]
  /\ output = Unwritten
  /\ last = Step("init", "none", 0, TRUE)
  /\ parser \in Parsers

Init ==
  /\ MonitorInit
  /\ arg = Malformed
  /\ result = NoResult

(***************************************************************************)
(* processFile: the guard and the synchronous start, up to getFile().      *)
(***************************************************************************)
\* processFileGuard with `||` between its two tests in place of `&&`.
processFileGuardEither(xml, out) == xml /= "null" \/ out /= "null"

\* The runs of processFile started and not failed: those in flight and, one
\* timer each, those that reached startPolling.
RunsStarted == Len(timers) + Cardinality(Running("process"))

processFileGuard(xml, out) == xml /= "null" /\ out /= "null"

\* processFile called with the handles xml and out, the log being msgs.
processFile(xml, out, msgs) ==
  IF ~processFileGuard(xml, out)
  THEN /\ messages' = Append(msgs, Msg("Please select both an XML file and an output file."))
       /\ tasks' = tasks
  ELSE /\ messages' = msgs
       /\ \E i \in TaskIds :
            /\ FirstFree(i)
            /\ tasks' = [tasks EXCEPT ![i] = [IdleTask EXCEPT !.kind = "process", !.pc = "getFile"]]

\* The watcher on [xmlFileHandle, outputFileHandle].
watchHandles(xml, out, msgs) ==
  IF xml /= "null" /\ out /= "null"
  THEN processFile(xml, out, msgs)
  ELSE messages' = msgs /\ tasks' = tasks

selectXmlFile ==
  /\ mounted
  /\ \E picked \in BOOLEAN :
       IF picked
       THEN /\ xmlFileHandle' = "handle"
            /\ xmlFileName' = "app.config"
            /\ watchHandles("handle", outputFileHandle,
                            Append(messages, Msg("Selected XML file")))
            /\ last' = Step("selectXmlFile", "none", 0, TRUE)
       ELSE /\ messages' = Append(messages, Msg("XML file selection cancelled or failed."))
            /\ last' = Step("selectXmlFile", "none", 0, FALSE)
            /\ UNCHANGED <<xmlFileHandle, xmlFileName, tasks>>
  /\ UNCHANGED <<mounted, outputFileHandle, outputFileName, knownKeys,
                 pollingInterval, timers, watched, output>>
  /\ UNCHANGED <<arg, result, parser>>

\* selectOutputFile assigning the handle also when the picker rejects
\* (outputFileHandle.value = await showSaveFilePicker(opts).catch(() => null)).
selectOutputFileClearsOnCancel ==
  /\ mounted
  /\ \E picked \in BOOLEAN :
       IF picked
       THEN /\ outputFileHandle' = "handle"
            /\ outputFileName' = "configurations.cs"
            /\ watchHandles(xmlFileHandle, "handle",
                            Append(messages, Msg("Selected output file")))
            /\ last' = Step("selectOutputFile", "none", 0, TRUE)
       ELSE /\ outputFileHandle' = "null"
            /\ messages' = Append(messages, Msg("Output file selection cancelled or failed."))
            /\ last' = Step("selectOutputFile", "none", 0, FALSE)
            /\ UNCHANGED <<outputFileName, tasks>>
  /\ UNCHANGED <<mounted, xmlFileHandle, xmlFileName, knownKeys,
                 pollingInterval, timers, watched, output>>
  /\ UNCHANGED <<arg, result, parser>>

selectOutputFile ==
  /\ mounted
  /\ \E picked \in BOOLEAN :
       IF picked
       THEN /\ outputFileHandle' = "handle"
            /\ outputFileName' = "configurations.cs"
            /\ watchHandles(xmlFileHandle, "handle",
                            Append(messages, Msg("Selected output file")))
            /\ last' = Step("selectOutputFile", "none", 0, TRUE)
       ELSE /\ messages' = Append(messages, Msg("Output file selection cancelled or failed."))
            /\ last' = Step("selectOutputFile", "none", 0, FALSE)
            /\ UNCHANGED <<outputFileHandle, outputFileName, tasks>>
  /\ UNCHANGED <<mounted, xmlFileHandle, xmlFileName, knownKeys,
                 pollingInterval, timers, watched, output>>
  /\ UNCHANGED <<arg, result, parser>>

\* processFile invoked directly (the method of main.js).
ProcessFileCall ==
  /\ mounted
  /\ processFile(xmlFileHandle, outputFileHandle, messages)
  /\ last' = Step("processFile", "none", 0, processFileGuard(xmlFileHandle, outputFileHandle))
  /\ UNCHANGED <<mounted, xmlFileHandle, outputFileHandle, xmlFileName,
                 outputFileName, knownKeys, pollingInterval, timers, watched, output>>
  /\ UNCHANGED <<arg, result, parser>>

(***************************************************************************)
(* startPolling: clear the timer pollingInterval names, create a timer     *)
(* whose closure holds lastModifiedTime = null (0), and ask for the file's *)
(* modification time (getFile().then, settled by TimerInit).               *)
(***************************************************************************)
NewTimer == [active |-> TRUE, lastModifiedTime |-> 0, init |-> "pending"]

clearInterval(ts, id) ==
  IF id = 0 THEN ts ELSE [ts EXCEPT ![id].active = FALSE]

\* startPolling without its first line, the clearInterval.
startPollingNoClear ==
  /\ timers' = Append(timers, NewTimer)
  /\ pollingInterval' = Len(timers) + 1

startPolling ==
  /\ timers' = Append(clearInterval(timers, pollingInterval), NewTimer)
  /\ pollingInterval' = Len(timers) + 1

\* The .then of startPolling's getFile(): stores the modification time the
\* file has when the promise resolves; a rejection stores nothing.
TimerInit(t) ==
  /\ t \in DOMAIN timers
  /\ timers[t].init = "pending"
  /\ \E ok \in BOOLEAN :
       /\ timers' = [timers EXCEPT ![t].init = "done",
                                   ![t].lastModifiedTime =
                                      IF ok THEN watched.lastModified ELSE @]
       /\ last' = Step("timerInit", "none", 0, ok)
  /\ UNCHANGED <<mounted, xmlFileHandle, outputFileHandle, xmlFileName,
                 outputFileName, messages, knownKeys, pollingInterval, tasks,
                 watched, output>>
  /\ UNCHANGED <<arg, result, parser>>

(***************************************************************************)
(* What follows writeOutputFile in its two callers.  msgs is the log as    *)
(* writeOutputFile left it; writeOutputFile catches its own errors, so     *)
(* both callers continue after a failed write as after a successful one.   *)
(***************************************************************************)
\* processFile after `await writeOutputFile(keys)`.
processFileRest(i, msgs) ==
  /\ messages' = Append(msgs, Msg("Processing complete. Output file written."))
  /\ startPolling
  /\ UNCHANGED knownKeys

\* The poll callback after `await writeOutputFile(currentKeys)`.
pollRest(i, msgs) ==
  /\ messages' = Append(msgs, StatusMsg(tasks[i].newKeys, tasks[i].deletedKeys))
  /\ knownKeys' = tasks[i].keys
  /\ UNCHANGED <<timers, pollingInterval>>

afterWrite(i, msgs) ==
  IF tasks[i].kind = "process" THEN processFileRest(i, msgs) ELSE pollRest(i, msgs)

\* The catch block of writeOutputFile, then the caller's continuation.
writeFailed(i) ==
  /\ afterWrite(i, Append(messages, Msg("Error writing output file.")))
  /\ tasks' = [tasks EXCEPT ![i] = IdleTask]
  /\ UNCHANGED output

(***************************************************************************)
(* writeOutputFile(keys), entered with outputFileHandle set: the awaits    *)
(* createWritable(), write(classContent) and close().  The file on disk    *)
(* changes when close() resolves.                                          *)
(***************************************************************************)
InWrite(i) == tasks[i].pc \in {"createWritable", "write", "close"}

\* createWritable() settles; the loop building classContent runs.
CreateWritable(i) ==
  /\ tasks[i].pc = "createWritable"
  /\ \E ok \in BOOLEAN :
       /\ IF ok /\ ~Throws(tasks[i].keys)
          THEN /\ tasks' = [tasks EXCEPT ![i].pc = "write"]
               /\ UNCHANGED <<messages, knownKeys, timers, pollingInterval, output>>
          ELSE writeFailed(i)
       /\ last' = Step(IF ok /\ Throws(tasks[i].keys) THEN "classContent" ELSE "createWritable",
                       tasks[i].kind, i, ok /\ ~Throws(tasks[i].keys))
  /\ UNCHANGED <<mounted, xmlFileHandle, outputFileHandle, xmlFileName,
                 outputFileName, watched>>
  /\ UNCHANGED <<arg, result, parser>>

\* writable.write(classContent) settles.
Write(i) ==
  /\ tasks[i].pc = "write"
  /\ \E ok \in BOOLEAN :
       /\ IF ok
          THEN /\ tasks' = [tasks EXCEPT ![i].pc = "close"]
               /\ UNCHANGED <<messages, knownKeys, timers, pollingInterval, output>>
          ELSE writeFailed(i)
       /\ last' = Step("write", tasks[i].kind, i, ok)
  /\ UNCHANGED <<mounted, xmlFileHandle, outputFileHandle, xmlFileName,
                 outputFileName, watched>>
  /\ UNCHANGED <<arg, result, parser>>

\* writable.close() settles; on success the file holds the class content.
Close(i) ==
  /\ tasks[i].pc = "close"
  /\ \E ok \in BOOLEAN :
       /\ IF ok
          THEN /\ output' = [written |-> TRUE, classContent |-> classContentOf(tasks[i].keys)]
               /\ afterWrite(i, Append(messages, Msg("Output file written successfully.")))
               /\ tasks' = [tasks EXCEPT ![i] = IdleTask]
          ELSE writeFailed(i)
       /\ last' = Step("close", tasks[i].kind, i, ok)
  /\ UNCHANGED <<mounted, xmlFileHandle, outputFileHandle, xmlFileName,
                 outputFileName, watched>>
  /\ UNCHANGED <<arg, result, parser>>

(***************************************************************************)
(* processFile after its start: getFile(), file.text(), extractKeys, the   *)
(* snapshot, writeOutputFile.  A rejected read is caught and logged.       *)
(***************************************************************************)
ProcessGetFile(i) ==
  /\ tasks[i].kind = "process"
  /\ tasks[i].pc = "getFile"
  /\ \E ok \in BOOLEAN :
       /\ IF ok
          THEN /\ tasks' = [tasks EXCEPT ![i].pc = "text", ![i].file = watched]
               /\ UNCHANGED messages
          ELSE /\ tasks' = [tasks EXCEPT ![i] = IdleTask]
               /\ messages' = Append(messages, Msg("Error processing the XML file."))
       /\ last' = Step("getFile", "process", i, ok)
  /\ UNCHANGED <<mounted, xmlFileHandle, outputFileHandle, xmlFileName,
                 outputFileName, knownKeys, pollingInterval, timers, watched, output>>
  /\ UNCHANGED <<arg, result, parser>>

ProcessText(i) ==
  /\ tasks[i].kind = "process"
  /\ tasks[i].pc = "text"
  /\ \E ok \in BOOLEAN :
       /\ IF ok
          THEN LET keys == extractKeys(tasks[i].file.content)
               IN  /\ knownKeys' = keys
                   /\ tasks' = [tasks EXCEPT ![i].pc = "createWritable", ![i].keys = keys]
                   /\ UNCHANGED messages
          ELSE /\ tasks' = [tasks EXCEPT ![i] = IdleTask]
               /\ messages' = Append(messages, Msg("Error processing the XML file."))
               /\ UNCHANGED knownKeys
       /\ last' = Step("text", "process", i, ok)
  /\ UNCHANGED <<mounted, xmlFileHandle, outputFileHandle, xmlFileName,
                 outputFileName, pollingInterval, timers, watched, output>>
  /\ UNCHANGED <<arg, result, parser>>

(***************************************************************************)
(* The poll callback of setInterval.  lastModifiedTime is the variable of  *)
(* the closure of the startPolling call that created the timer.            *)
(***************************************************************************)
\* The timer fires: the callback starts and awaits getFile().  setInterval
\* does not wait for the promise of an earlier callback.
TickFire(t) ==
  /\ t \in DOMAIN timers
  /\ timers[t].active
  /\ \E i \in TaskIds :
       /\ FirstFree(i)
       /\ tasks' = [tasks EXCEPT ![i] = [IdleTask EXCEPT !.kind = "poll",
                                                        !.pc = "getFile",
                                                        !.timer = t]]
       /\ last' = Step("tick", "poll", i, TRUE)
  /\ UNCHANGED <<mounted, xmlFileHandle, outputFileHandle, xmlFileName,
                 outputFileName, messages, knownKeys, pollingInterval, timers,
                 watched, output>>
  /\ UNCHANGED <<arg, result, parser>>

\* tickAfterGetFile without the comparison of the modification times.
tickAfterGetFileNoCompare(i, ok, file) ==
  LET t == tasks[i].timer
  IN  IF ok
      THEN /\ timers' = [timers EXCEPT ![t].lastModifiedTime = file.lastModified]
           /\ tasks' = [tasks EXCEPT ![i].pc = "text", ![i].file = file]
      ELSE /\ tasks' = [tasks EXCEPT ![i] = IdleTask]
           /\ UNCHANGED timers

\* tickAfterGetFile with a catch block that stops the timer.
tickAfterGetFileStopsOnError(i, ok, file) ==
  LET t == tasks[i].timer
  IN  IF ok /\ timers[t].lastModifiedTime /= file.lastModified
      THEN /\ timers' = [timers EXCEPT ![t].lastModifiedTime = file.lastModified]
           /\ tasks' = [tasks EXCEPT ![i].pc = "text", ![i].file = file]
      ELSE /\ tasks' = [tasks EXCEPT ![i] = IdleTask]
           /\ timers' = IF ok THEN timers ELSE clearInterval(timers, t)

\* What the callback does once getFile() has settled: the comparison of the
\* modification times and, when they differ, the update of the marker.
tickAfterGetFile(i, ok, file) ==
  LET t == tasks[i].timer
  IN  IF ok /\ timers[t].lastModifiedTime /= file.lastModified
      THEN /\ timers' = [timers EXCEPT ![t].lastModifiedTime = file.lastModified]
           /\ tasks' = [tasks EXCEPT ![i].pc = "text", ![i].file = file]
      ELSE /\ tasks' = [tasks EXCEPT ![i] = IdleTask]
           /\ UNCHANGED timers

TickGetFile(i) ==
  /\ tasks[i].kind = "poll"
  /\ tasks[i].pc = "getFile"
  /\ \E ok \in BOOLEAN :
       /\ tickAfterGetFile(i, ok, watched)
       /\ last' = Step(IF ~ok THEN "getFile"
                       ELSE IF timers[tasks[i].timer].lastModifiedTime = watched.lastModified
                            THEN "unchanged" ELSE "changed",
                       "poll", i, ok)
  /\ UNCHANGED <<mounted, xmlFileHandle, outputFileHandle, xmlFileName,
                 outputFileName, messages, knownKeys, pollingInterval, watched,
                 output>>
  /\ UNCHANGED <<arg, result, parser>>

\* tickAfterText without the test that the diff is non-empty.
tickAfterTextNoCheck(i, xmlText) ==
  LET currentKeys == extractKeys(xmlText)
  IN  tasks' = [tasks EXCEPT ![i].pc = "createWritable",
                             ![i].keys = currentKeys,
                             ![i].newKeys = newKeysOf(knownKeys, currentKeys),
                             ![i].deletedKeys = deletedKeysOf(knownKeys, currentKeys)]

\* What the callback does once file.text() has resolved with xmlText: the
\* extraction, the two filters and, for a non-empty diff, the entry into
\* writeOutputFile.
tickAfterText(i, xmlText) ==
  LET currentKeys == extractKeys(xmlText)
      newKeys == newKeysOf(knownKeys, currentKeys)
      deletedKeys == deletedKeysOf(knownKeys, currentKeys)
  IN  IF Len(newKeys) > 0 \/ Len(deletedKeys) > 0
      THEN tasks' = [tasks EXCEPT ![i].pc = "createWritable",
                                  ![i].keys = currentKeys,
                                  ![i].newKeys = newKeys,
                                  ![i].deletedKeys = deletedKeys]
      ELSE tasks' = [tasks EXCEPT ![i] = IdleTask]

TickText(i) ==
  /\ tasks[i].kind = "poll"
  /\ tasks[i].pc = "text"
  /\ \E ok \in BOOLEAN :
       /\ IF ok
          THEN tickAfterText(i, tasks[i].file.content)
          ELSE tasks' = [tasks EXCEPT ![i] = IdleTask]
       /\ last' = Step(IF ~ok THEN "text"
                       ELSE IF tasks'[i].pc = "idle" THEN "emptyDiff" ELSE "diff",
                       "poll", i, ok)
  /\ UNCHANGED <<mounted, xmlFileHandle, outputFileHandle, xmlFileName,
                 outputFileName, messages, knownKeys, pollingInterval, timers,
                 watched, output>>
  /\ UNCHANGED <<arg, result, parser>>

(***************************************************************************)
(* onUnmounted: clear the timer pollingInterval names.                     *)
(***************************************************************************)
onUnmounted ==
  /\ mounted
  /\ mounted' = FALSE
  /\ timers' = clearInterval(timers, pollingInterval)
  /\ last' = Step("onUnmounted", "none", 0, TRUE)
  /\ UNCHANGED <<xmlFileHandle, outputFileHandle, xmlFileName, outputFileName,
                 messages, knownKeys, pollingInterval, tasks, watched, output>>
  /\ UNCHANGED <<arg, result, parser>>

(***************************************************************************)
(* The environment: another program rewrites the watched file.  The text   *)
(* may stay the same (a touch).                                            *)
(***************************************************************************)
ModifyFile ==
  /\ watched.lastModified < MaxMTime
  /\ \E doc \in Docs :
       watched' = [lastModified |-> watched.lastModified + 1, content |-> doc]
  /\ last' = Step("modify", "none", 0, TRUE)
  /\ UNCHANGED <<mounted, xmlFileHandle, outputFileHandle, xmlFileName,
                 outputFileName, messages, knownKeys, pollingInterval, timers,
                 tasks, output>>
  /\ UNCHANGED <<arg, result, parser>>

\* The bounds on the user: they act while the log holds fewer than maxLog
\* entries, and what they do starts no run beyond maxRuns.
UserActs(maxLog) == Len(messages) < maxLog
RunsWithin(maxRuns) == RunsStarted' <= maxRuns

\* The step did not end in an error.
Resolved == last'.ok
\* The File object run i holds is the file as it is on disk.
Current(i) == tasks[i].file = watched

Next ==
  \/ UserActs(MaxLog) /\ selectXmlFile /\ RunsWithin(MaxRuns)
  \/ UserActs(MaxLog) /\ selectOutputFile /\ RunsWithin(MaxRuns)
  \/ UserActs(MaxLog) /\ ProcessFileCall /\ RunsWithin(MaxRuns)
  \/ \E i \in TaskIds : ProcessGetFile(i)
  \/ \E i \in TaskIds : ProcessText(i)
  \/ \E i \in TaskIds : CreateWritable(i)
  \/ \E i \in TaskIds : Write(i)
  \/ \E i \in TaskIds : Close(i)
  \/ \E t \in 1..MaxRuns : TimerInit(t)
  \/ \E t \in 1..MaxRuns : TickFire(t)
  \/ \E i \in TaskIds : TickGetFile(i)
  \/ \E i \in TaskIds : TickText(i)
  \/ onUnmounted
  \/ ModifyFile

Spec == Init /\ [][Next]_vars

(***************************************************************************)
(* The monitor when every read of the watched file and every write of the  *)
(* output file succeeds: each awaited promise resolves, the loop of        *)
(* writeOutputFile does not throw, and file.text() reads the File object   *)
(* before the file changes under it.                                       *)
(***************************************************************************)
ReliableNext ==
  \/ UserActs(MaxLog) /\ selectXmlFile /\ RunsWithin(MaxRuns)
  \/ UserActs(MaxLog) /\ selectOutputFile /\ RunsWithin(MaxRuns)
  \/ UserActs(MaxLog) /\ ProcessFileCall /\ RunsWithin(MaxRuns)
  \/ \E i \in TaskIds : ProcessGetFile(i) /\ Resolved
  \/ \E i \in TaskIds : Current(i) /\ ProcessText(i) /\ Resolved
  \/ \E i \in TaskIds : CreateWritable(i) /\ Resolved
  \/ \E i \in TaskIds : Write(i) /\ Resolved
  \/ \E i \in TaskIds : Close(i) /\ Resolved
  \/ \E t \in 1..MaxRuns : TimerInit(t) /\ Resolved
  \/ \E t \in 1..MaxRuns : TickFire(t)
  \/ \E i \in TaskIds : TickGetFile(i) /\ Resolved
  \/ \E i \in TaskIds : Current(i) /\ TickText(i) /\ Resolved
  \/ onUnmounted
  \/ ModifyFile

ReliableSpec == Init /\ [][ReliableNext]_vars

(***************************************************************************)
(* Longer sessions at the page.  The watched file holds the keys A and B   *)
(* and is not rewritten in them.                                           *)
(***************************************************************************)
SessionInit ==
  /\ Init
  /\ watched.content = DocAB
  /\ parser = "partialTree"

\* The user goes on selecting files and calling processFile until the log
\* holds MaxSessionLog entries, which starts up to MaxSessionRuns runs of
\* processFile, also overlapping ones, and as many timers.  The reads of
\* the poll loop succeed.
SessionNext ==
  \/ UserActs(MaxSessionLog) /\ selectXmlFile /\ RunsWithin(MaxSessionRuns)
  \/ UserActs(MaxSessionLog) /\ selectOutputFile /\ RunsWithin(MaxSessionRuns)
  \/ UserActs(MaxSessionLog) /\ ProcessFileCall /\ RunsWithin(MaxSessionRuns)
  \/ \E i \in TaskIds : ProcessGetFile(i)
  \/ \E i \in TaskIds : ProcessText(i)
  \/ \E i \in TaskIds : CreateWritable(i)
  \/ \E i \in TaskIds : Write(i)
  \/ \E i \in TaskIds : Close(i)
  \/ \E t \in 1..MaxSessionRuns : TimerInit(t) /\ Resolved
  \/ \E t \in 1..MaxSessionRuns : TickFire(t)
  \/ \E i \in TaskIds : TickGetFile(i) /\ Resolved
  \/ \E i \in TaskIds : TickText(i) /\ Resolved
  \/ onUnmounted

SessionSpec == SessionInit /\ [][SessionNext]_vars

\* The user goes on with the pickers until the log holds MaxPickerLog
\* entries, past the end of the run of processFile and the start of polling.
PickerNext ==
  \/ UserActs(MaxPickerLog) /\ selectXmlFile /\ RunsWithin(MaxRuns)
  \/ UserActs(MaxPickerLog) /\ selectOutputFile /\ RunsWithin(MaxRuns)
  \/ UserActs(MaxPickerLog) /\ ProcessFileCall /\ RunsWithin(MaxRuns)
  \/ \E i \in TaskIds : ProcessGetFile(i)
  \/ \E i \in TaskIds : ProcessText(i)
  \/ \E i \in TaskIds : CreateWritable(i)
  \/ \E i \in TaskIds : Write(i)
  \/ \E i \in TaskIds : Close(i)
  \/ \E t \in 1..MaxRuns : TimerInit(t)
  \/ \E t \in 1..MaxRuns : TickFire(t)
  \/ \E i \in TaskIds : TickGetFile(i)
  \/ \E i \in TaskIds : TickText(i)
  \/ onUnmounted

PickerSpec == SessionInit /\ [][PickerNext]_vars

(***************************************************************************)
(* The extractor on its own: extractKeys of part_000 and of main.js        *)
(* applied to a text of XmlTexts, with the monitor left in its initial     *)
(* state.                                                                  *)
(***************************************************************************)
ExtractInit ==
  /\ MonitorInit
  /\ watched.content = Malformed
  /\ arg \in XmlTexts
  /\ result = NoResult

ApplyExtractKeys ==
  /\ ~result.done
  /\ result' = [fn |-> "extractKeys", done |-> TRUE, keys |-> extractKeys(arg)]
  /\ UNCHANGED <<monitorVars, arg, parser>>

ApplyExtractKeysMain ==
  /\ ~result.done
  /\ result' = [fn |-> "extractKeys (main.js)", done |-> TRUE, keys |-> extractKeysMain(arg)]
  /\ UNCHANGED <<monitorVars, arg, parser>>

ExtractNext == ApplyExtractKeys \/ ApplyExtractKeysMain

ExtractSpec == ExtractInit /\ [][ExtractNext]_vars

(***************************************************************************)
(* The change detector on its own: the two filters applied to a pair of    *)
(* snapshots, and to the same pair with previous and current swapped.      *)
(* Snapshots hold up to MaxSnap entries; keys may repeat, and a key may be *)
(* null, as extractKeys of part_000 returns it for an <add> without key.   *)
(***************************************************************************)
SnapEntries == [key : {Null, KeyA, KeyB}, value : {Val1, Val2}]
Snapshots == UNION {[1..n -> SnapEntries] : n \in 0..MaxSnap}

NoDiff == [done |-> FALSE, added |-> <<>>, removed |-> <<>>]
DiffDone(d) == [done |-> TRUE, added |-> d.added, removed |-> d.removed]

DiffInit ==
  /\ MonitorInit
  /\ watched.content = Malformed
  /\ parser = "errorDocument"
  /\ arg \in [previous : Snapshots, current : Snapshots]
  /\ result = [forward |-> NoDiff, backward |-> NoDiff]

ApplyDiff ==
  /\ ~result.forward.done
  /\ result' = [result EXCEPT !.forward = DiffDone(diffOf(arg.previous, arg.current))]
  /\ UNCHANGED <<monitorVars, arg, parser>>

ApplyDiffSwapped ==
  /\ ~result.backward.done
  /\ result' = [result EXCEPT !.backward = DiffDone(diffOf(arg.current, arg.previous))]
  /\ UNCHANGED <<monitorVars, arg, parser>>

DiffNext == ApplyDiff \/ ApplyDiffSwapped

DiffSpec == DiffInit /\ [][DiffNext]_vars

(***************************************************************************)
(* The identifier derivation on its own: the first lines of the loop of    *)
(* writeOutputFile applied to a key string of up to MaxKeyLen characters,  *)
(* or to one of the two keys "My-Key.1" and "1abc".                        *)
(***************************************************************************)
KeyChars == {"a", "Z", "7", "_", "-", "."}
MyKey1 == <<"M", "y", "-", "K", "e", "y", ".", "1">>
OneAbc == <<"1", "a", "b", "c">>
KeyStrings ==
  UNION {[1..n -> KeyChars] : n \in 0..MaxKeyLen} \cup {MyKey1, OneAbc}

NoIdent == [done |-> FALSE, constName |-> <<>>]

IdentInit ==
  /\ MonitorInit
  /\ watched.content = Malformed
  /\ parser = "errorDocument"
  /\ arg \in KeyStrings
  /\ result = NoIdent

ApplyConstName ==
  /\ ~result.done
  /\ result' = [done |-> TRUE, constName |-> constNameOf(arg)]
  /\ UNCHANGED <<monitorVars, arg, parser>>

IdentNext == ApplyConstName

IdentSpec == IdentInit /\ [][IdentNext]_vars

(***************************************************************************)
(* Properties of the monitor.                                              *)
(***************************************************************************)
\* Run i takes the step.
Moves(i) == tasks'[i] /= tasks[i]
\* The step ends run i.
Ends(i) == tasks[i].kind /= "none" /\ tasks'[i] = IdleTask
\* The step is one in which the output sink rejected createWritable, write
\* or close of run i.
SinkRejects(i) ==
  /\ InWrite(i)
  /\ Ends(i)
  /\ last'.task = i
  /\ last'.op \in {"createWritable", "write", "close"}
  /\ ~last'.ok
ActiveTimers == {t \in DOMAIN timers : timers[t].active}

\* C1: when the output sink rejects a write during a poll cycle that found a
\* non-empty diff, the accepted snapshot knownKeys is not advanced.
C1_WriteFailureKeepsSnapshot ==
  [][\A i \in TaskIds :
       tasks[i].kind = "poll" /\ SinkRejects(i) => knownKeys' = knownKeys]_vars

\* C2: poll ticks are strictly sequential: the callback of a tick does not
\* begin while an earlier tick is unsettled, so at most one poll run is in
\* flight and the writes of two ticks never overlap.
C2_TicksSequential ==
  \A i, j \in TaskIds :
    tasks[i].kind = "poll" /\ tasks[j].kind = "poll" => i = j

\* The diff a poll run at file.text() computes when the read succeeds.
EmptyDiff(i) ==
  LET currentKeys == extractKeys(tasks[i].file.content)
  IN  /\ newKeysOf(knownKeys, currentKeys) = <<>>
      /\ deletedKeysOf(knownKeys, currentKeys) = <<>>

\* C3: a poll tick that sees a changed modification time updates the marker
\* lastModifiedTime and, when its diff is empty (a change of a value alone
\* included), does nothing else: no write, no log entry, no new snapshot.
C3_EmptyDiffOnlyUpdatesMarker ==
  [][\A i \in TaskIds :
       tasks[i].kind = "poll" /\ Moves(i) =>
         /\ tasks[i].pc = "getFile" /\ tasks'[i].pc = "text" =>
              /\ timers'[tasks[i].timer].lastModifiedTime = watched.lastModified
              /\ UNCHANGED <<output, messages, knownKeys>>
         /\ tasks[i].pc = "text" /\ EmptyDiff(i) =>
              /\ Ends(i)
              /\ UNCHANGED <<output, messages, knownKeys, timers, pollingInterval>>]_vars

\* A tick has just ended on an empty diff although the value of key A
\* changed from 1 to 2: the snapshot and the output are those of the first run.
C3_Witness ==
  /\ last.kind = "poll" /\ last.op = "emptyDiff"
  /\ watched.content = DocA2
  /\ timers[pollingInterval].lastModifiedTime = watched.lastModified
  /\ knownKeys = extractKeys(DocA)
  /\ output = [written |-> TRUE, classContent |-> classContentOf(extractKeys(DocA))]

C5_UnchangedTimestampDoesNothing ==
  [][\A i \in TaskIds :
       /\ tasks[i].kind = "poll" /\ tasks[i].pc = "getFile" /\ Moves(i)
       /\ timers[tasks[i].timer].lastModifiedTime = watched.lastModified
       => /\ Ends(i)
          /\ UNCHANGED <<messages, knownKeys, output, timers, pollingInterval, watched>>]_vars

\* A tick has just ended on an unchanged modification time.
C5_Witness ==
  /\ last.kind = "poll" /\ last.op = "unchanged" /\ last.ok
  /\ pollingInterval \in ActiveTimers
  /\ timers[pollingInterval].lastModifiedTime = watched.lastModified

\* The step ends poll run i on a rejected getFile() or file.text().
ReadError(i) ==
  /\ tasks[i].kind = "poll" /\ tasks[i].pc \in {"getFile", "text"}
  /\ Ends(i) /\ last'.task = i /\ ~last'.ok

\* C6: a read error in a poll tick is caught in the tick: no timer is
\* cleared by it, and an active timer can fire again whenever a run can start.
C6_ReadErrorKeepsPolling ==
  /\ [][\A i \in TaskIds :
          ReadError(i) => /\ pollingInterval' = pollingInterval
                          /\ ActiveTimers' = ActiveTimers]_vars
  /\ [](\A t \in ActiveTimers : (\E i \in TaskIds : Free(i)) => ENABLED TickFire(t))

\* A tick has just failed to read the file and its timer is still active.
C6_Witness ==
  /\ last.kind = "poll" /\ last.op \in {"getFile", "text"} /\ ~last.ok
  /\ pollingInterval \in ActiveTimers
  /\ \E i \in TaskIds : Free(i)

\* C7: the poll timer is started only after the first extract+write cycle
\* has succeeded, so a timer exists only once the output file was written.
C7_PollingOnlyAfterWrite == timers /= <<>> => output.written

\* C8: while either handle is missing nothing has run: no run is in flight,
\* no snapshot was taken, nothing was written and no timer exists.
C8_IdleUntilBothHandles ==
  xmlFileHandle = "null" \/ outputFileHandle = "null" =>
    /\ \A i \in TaskIds : Free(i)
    /\ knownKeys = <<>>
    /\ output = Unwritten
    /\ timers = <<>>
    /\ pollingInterval = 0

\* processFile has just been refused with one handle selected.
C8_Witness ==
  /\ last.op = "processFile" /\ ~last.ok
  /\ xmlFileHandle = "handle" /\ outputFileHandle = "null"
  /\ messages[Len(messages)] = Msg("Please select both an XML file and an output file.")

\* C9: after the component is unmounted no new poll tick begins.
C9_NoTickAfterUnmount ==
  [][~mounted =>
       \A i \in TaskIds : ~(tasks[i].kind /= "poll" /\ tasks'[i].kind = "poll")]_vars

\* The step is a picker that the user cancelled or that failed.
PickerRejected ==
  last'.op \in {"selectXmlFile", "selectOutputFile"} /\ ~last'.ok

\* C16: a cancelled or failed picker changes nothing of the monitor but the
\* log, to which it appends one entry: the handles, the displayed names,
\* the accepted snapshot, the timers with their markers, the runs in
\* flight and the output file stay as they are.
C16_CancelledPickerChangesNothing ==
  [][PickerRejected =>
       /\ UNCHANGED <<xmlFileHandle, outputFileHandle, xmlFileName, outputFileName,
                      knownKeys, pollingInterval, timers, tasks, output, mounted>>
       /\ Len(messages') = Len(messages) + 1
       /\ SubSeq(messages', 1, Len(messages)) = messages]_vars

\* The user has cancelled the output picker while polling runs: both
\* handles are set, the snapshot holds keys and the marker holds a time.
C16_Witness ==
  /\ last.op = "selectOutputFile" /\ ~last.ok
  /\ xmlFileHandle = "handle" /\ outputFileHandle = "handle"
  /\ outputFileName = "configurations.cs"
  /\ knownKeys /= <<>>
  /\ pollingInterval \in ActiveTimers
  /\ timers[pollingInterval].lastModifiedTime = watched.lastModified
  /\ messages[Len(messages)] = Msg("Output file selection cancelled or failed.")

\* C20: at most one poll timer is active at any time: every timer but the
\* one created last, which pollingInterval names, has been cleared.
C20_AtMostOneActiveTimer ==
  \A t \in DOMAIN timers :
    timers[t].active => t = Len(timers) /\ t = pollingInterval

\* Two runs of processFile that overlapped have both called startPolling:
\* the timer of the first is cleared and the timer of the second is active.
C20_Witness ==
  /\ Len(timers) = 2
  /\ ~timers[1].active
  /\ timers[2].active
  /\ pollingInterval = 2
  /\ \A i \in TaskIds : tasks[i].kind /= "process"

\* Polling has come to rest: no run is in flight, and the timer that polls
\* holds the modification time of the file as its marker, so that every
\* tick to come ends at the comparison until the file is written again.
Settled ==
  /\ \A i \in TaskIds : Free(i)
  /\ pollingInterval \in ActiveTimers
  /\ timers[pollingInterval].init = "done"
  /\ timers[pollingInterval].lastModifiedTime = watched.lastModified
\* The keys of the entries of a snapshot.
KeysOf(s) == {s[i].key : i \in 1..Len(s)}
\* The keys of the fields of the class the output file holds.
OutputKeys == {Str(output.classContent[i].key) : i \in 1..Len(output.classContent)}

\* C17: no modification of the watched file is lost at start-up.  With
\* reads and writes that succeed, whenever polling has come to rest the
\* accepted snapshot and the output file hold the keys of the file as it
\* is: a change made between the first read of processFile and the moment
\* startPolling learns the modification time has been detected by a tick.
C17_NoModificationLostAtStartup ==
  Settled =>
    /\ KeysOf(knownKeys) = KeysOf(extractKeys(watched.content))
    /\ output.written
    /\ OutputKeys = KeysOf(extractKeys(watched.content))

\* C18: a poll tick whose file.text() rejects after it saw a changed
\* modification time leaves the marker lastModifiedTime different from the
\* time it saw, so that the next tick takes the file as changed again.
C18_FailedReadKeepsModification ==
  [][\A i \in TaskIds :
       /\ tasks[i].kind = "poll" /\ tasks[i].pc = "text"
       /\ Ends(i) /\ last'.task = i /\ last'.op = "text" /\ ~last'.ok
       => timers'[tasks[i].timer].lastModifiedTime /= tasks[i].file.lastModified]_vars

\* C19: a poll tick that read a text that is not well-formed never writes
\* the class of the empty snapshot to the output file and never replaces
\* a non-empty accepted snapshot by the empty one.
C19_UnparseableCycleSkipped ==
  [][\A i \in TaskIds :
       /\ tasks[i].kind = "poll" /\ tasks[i].pc /= "getFile" /\ Moves(i)
       /\ ~tasks[i].file.content.wellFormed
       => /\ last'.op = "close" /\ last'.ok => tasks[i].keys /= <<>>
          /\ knownKeys /= <<>> => knownKeys' /= <<>>]_vars

(***************************************************************************)
(* Properties of the extractor.                                            *)
(***************************************************************************)
\* The <add> elements of the first appSettings element of the document the
\* parser gives for a text that have a key that is neither absent nor empty,
\* in document order.
KeyedAdds(xmlText) ==
  LET containers == parseFromString(xmlText)
  IN  IF containers = <<>> THEN <<>>
      ELSE SelectSeq(containers[1], LAMBDA el : el.key /= Null /\ el.key /= Str(<<>>))

\* C10: every entry of a snapshot the extractor returns has a key that is
\* neither absent nor empty, and the snapshot is exactly the keyed <add>
\* elements in document order.
C10_ExtractorExcludesKeyless ==
  result.done =>
    /\ \A k \in 1..Len(result.keys) : Truthy(result.keys[k].key)
    /\ result.keys = KeyedAdds(arg)

\* C11: the extractor returns a snapshot for every text, and the empty
\* snapshot for a text that holds no appSettings element or that is not
\* well-formed.
C11_ExtractorNeverFails ==
  result.done =>
    /\ result.keys \in Seq(AddElements)
    /\ ~arg.wellFormed \/ arg.appSettings = <<>> => result.keys = <<>>

(***************************************************************************)
(* Properties of the change detector.                                      *)
(***************************************************************************)
\* The entries of s, in the order of s, whose key is none of keys.
Without(s, keys) == SelectSeq(s, LAMBDA e : e.key \notin keys)

\* C12: added is exactly the entries of current whose key is the key of no
\* entry of previous, removed exactly the entries of previous whose key is
\* the key of no entry of current, each in the order of its snapshot; the
\* values take no part.
C12_DiffDefinition ==
  result.forward.done =>
    /\ result.forward.added = Without(arg.current, KeysOf(arg.previous))
    /\ result.forward.removed = Without(arg.previous, KeysOf(arg.current))

\* The detector was applied to snapshots in which key A changed its value,
\* key B went away and an entry without key came.
C12_Witness ==
  /\ result.forward.done
  /\ arg.previous = <<Add(KeyA, Val1), Add(KeyB, Val1)>>
  /\ arg.current = <<Add(Null, Val1), Add(KeyA, Val2)>>
  /\ result.forward.added = <<Add(Null, Val1)>>
  /\ result.forward.removed = <<Add(KeyB, Val1)>>

\* C13: swapping previous and current swaps added and removed.
C13_DiffSymmetry ==
  result.forward.done /\ result.backward.done =>
    /\ result.forward.added = result.backward.removed
    /\ result.forward.removed = result.backward.added

\* The detector was applied both ways to snapshots that differ in both
\* directions and share a key whose values differ.
C13_Witness ==
  /\ result.forward.done /\ result.backward.done
  /\ result.forward.added /= <<>> /\ result.forward.removed /= <<>>
  /\ \E i \in 1..Len(arg.previous), j \in 1..Len(arg.current) :
        /\ arg.previous[i].key = arg.current[j].key
        /\ arg.previous[i].value /= arg.current[j].value

\* C14: comparing a snapshot with itself gives an empty diff, also when a
\* key occurs twice in it.
C14_DiffSelfEmpty ==
  result.forward.done /\ arg.previous = arg.current =>
    result.forward.added = <<>> /\ result.forward.removed = <<>>

\* The detector was applied to a snapshot with a key that occurs twice and
\* to the same snapshot.
C14_Witness ==
  /\ result.forward.done
  /\ arg.previous = arg.current
  /\ arg.current = <<Add(KeyA, Val1), Add(KeyA, Val2)>>

(***************************************************************************)
(* Properties of the code generator.                                       *)
(***************************************************************************)
\* C15: the identifier derived from a key is the key with every character
\* that is no letter, digit or underscore replaced by an underscore, and
\* with an underscore put before it when that begins with a digit; it
\* holds letters, digits and underscores only and does not begin with a
\* digit.  "My-Key.1" gives "My_Key_1" and "1abc" gives "_1abc".
C15_IdentifierDerivation ==
  result.done =>
    LET id == result.constName
        off == IF arg /= <<>> /\ arg[1] \in Digits THEN 1 ELSE 0
    IN  /\ Len(id) = Len(arg) + off
        /\ off = 1 => id[1] = "_"
        /\ \A k \in 1..Len(arg) :
             id[k + off] = IF arg[k] \in Letters \cup Digits \cup {"_"}
                           THEN arg[k] ELSE "_"
        /\ \A k \in 1..Len(id) : id[k] \in Letters \cup Digits \cup {"_"}
        /\ id /= <<>> => id[1] \notin Digits
        /\ arg = MyKey1 => id = <<"M", "y", "_", "K", "e", "y", "_", "1">>
        /\ arg = OneAbc => id = <<"_", "1", "a", "b", "c">>

\* The identifier of a key that begins with a digit and holds two
\* characters to replace has been derived.
C15_Witness ==
  /\ result.done
  /\ arg = <<"7", "-", ".">>
  /\ result.constName = <<"_", "7", "_", "_">>

=============================================================================
